---- MODULE Spec2Model ----
(***************************************************************************)
(* Model of package config (src/config.go): Parse resolves a configuration *)
(* structure from a JSON file, the process environment and the 'def' tags  *)
(* of its fields.                                                          *)
(*                                                                         *)
(* Strings are sequences of one-character strings, so that strconv's       *)
(* parsers are modelled by what they do to the characters.  Integers are   *)
(* 64-bit patterns, four 16-bit limbs, least significant first, the way    *)
(* reflect.Value.Int/Uint hand them out (sign- or zero-extended).          *)
(***************************************************************************)
EXTENDS Integers, Sequences, FiniteSets, TLC

\* ------------------------------------------------------------------------
\* 64-bit integers

Base == 2^16

Half == 2^15

Zero64 == <<0, 0, 0, 0>>

Ones(b) == IF b THEN Base - 1 ELSE 0

\* n * 10 + d on a 64-bit pattern; carry > 0 means the result left 64 bits
MulAdd10(n, d) ==
    LET t1 == n[1] * 10 + d
        t2 == n[2] * 10 + (t1 \div Base)
        t3 == n[3] * 10 + (t2 \div Base)
        t4 == n[4] * 10 + (t3 \div Base)
    IN  [n |-> <<t1 % Base, t2 % Base, t3 % Base, t4 % Base>>,
         carry |-> t4 \div Base]

\* two's complement negation
Neg64(n) ==
    LET t1 == (Base - 1 - n[1]) + 1
        t2 == (Base - 1 - n[2]) + (t1 \div Base)
        t3 == (Base - 1 - n[3]) + (t2 \div Base)
        t4 == (Base - 1 - n[4]) + (t3 \div Base)
    IN  <<t1 % Base, t2 % Base, t3 % Base, t4 % Base>>

\* the sign bit of a pattern read as int64
IsNeg64(n) == n[4] >= Half

\* int64 > 0
Positive64(n) == ~IsNeg64(n) /\ n # Zero64

\* conversion of an int64 to a signed integer of w bits, sign-extended back
TruncS(n, w) ==
    CASE w = 64 -> n
      [] w = 32 -> <<n[1], n[2], Ones(n[2] >= Half), Ones(n[2] >= Half)>>
      [] w = 16 -> <<n[1], Ones(n[1] >= Half), Ones(n[1] >= Half), Ones(n[1] >= Half)>>
      [] w = 8  -> LET b == n[1] % 256
                   IN  <<IF b >= 128 THEN b + (Base - 256) ELSE b,
                         Ones(b >= 128), Ones(b >= 128), Ones(b >= 128)>>

\* conversion of a uint64 to an unsigned integer of w bits, zero-extended back
TruncU(n, w) ==
    CASE w = 64 -> n
      [] w = 32 -> <<n[1], n[2], 0, 0>>
      [] w = 16 -> <<n[1], 0, 0, 0>>
      [] w = 8  -> <<n[1] % 256, 0, 0, 0>>

\* ------------------------------------------------------------------------
\* strconv

DigitChars == <<"0", "1", "2", "3", "4", "5", "6", "7", "8", "9">>

IsDigit(c) == \E k \in 1..10 : DigitChars[k] = c

DigitVal(c) == (CHOOSE k \in 1..10 : DigitChars[k] = c) - 1

NoErr == "nil"

ErrSyntax == "ErrSyntax"

ErrRange == "ErrRange"

RECURSIVE ParseDigits(_, _, _)
\* the digit loop of ParseUint; r is bound to the value of each step
ParseDigits(s, k, acc) ==
    IF k > Len(s) THEN [err |-> NoErr, n |-> acc]
    ELSE IF ~IsDigit(s[k]) THEN [err |-> ErrSyntax, n |-> Zero64]
    ELSE CHOOSE res \in
            { IF r.carry > 0 THEN [err |-> ErrRange, n |-> Zero64]
              ELSE ParseDigits(s, k + 1, r.n) : r \in {MulAdd10(acc, DigitVal(s[k]))} } : TRUE

\* strconv.ParseUint(s, 10, 64)
ParseUint(s) ==
    IF Len(s) = 0 THEN [err |-> ErrSyntax, n |-> Zero64]
    ELSE ParseDigits(s, 1, Zero64)

\* strconv.ParseInt(s, 10, 64)
ParseInt(s) ==
    IF Len(s) = 0 THEN [err |-> ErrSyntax, n |-> Zero64]
    ELSE LET neg == s[1] = "-"
             rest == IF s[1] \in {"+", "-"} THEN Tail(s) ELSE s
             u == ParseUint(rest)
         IN  IF u.err # NoErr THEN u
             ELSE IF ~neg /\ IsNeg64(u.n) THEN [err |-> ErrRange, n |-> Zero64]
             ELSE IF neg /\ IsNeg64(u.n) /\ u.n # <<0, 0, 0, Half>>
                  THEN [err |-> ErrRange, n |-> Zero64]
             ELSE [err |-> NoErr, n |-> IF neg THEN Neg64(u.n) ELSE u.n]

TrueLits == {<<"1">>, <<"t">>, <<"T">>, <<"T", "R", "U", "E">>,
             <<"t", "r", "u", "e">>, <<"T", "r", "u", "e">>}

FalseLits == {<<"0">>, <<"f">>, <<"F">>, <<"F", "A", "L", "S", "E">>,
              <<"f", "a", "l", "s", "e">>, <<"F", "a", "l", "s", "e">>}

\* strconv.ParseBool(s)
ParseBool(s) ==
    IF s \in TrueLits THEN [err |-> NoErr, b |-> TRUE]
    ELSE IF s \in FalseLits THEN [err |-> NoErr, b |-> FALSE]
    ELSE [err |-> ErrSyntax, b |-> FALSE]

\* ------------------------------------------------------------------------
\* State

VARIABLES
    schema,     \* the fields of the destination structure type, in declared order
    env,        \* the process environment: key -> [set, val]
    file,       \* what is at the path given to Parse
    dest,       \* the destination structure the caller handed to Parse
    stNil,      \* Parse's own interface value st holds nil (no longer the pointer)
    data,       \* the bytes ReadFile returned
    pc,         \* where Parse is
    i,          \* the loop index of the top-level setFromEnvOrDefault
    run,        \* which call of Parse this is
    start,      \* dest when this call began
    decoded,    \* dest right after json.Unmarshal of this call
    first       \* outcome of the first call

vars == <<schema, env, file, dest, stNil, data, pc, i, run, start, decoded, first>>

\* ------------------------------------------------------------------------
\* Kinds (reflect.Kind of a field)

SignedHandled == {"int", "int8", "int32", "int64"}

UnsignedHandled == {"uint", "uint8", "uint32", "uint64"}

SignedKinds == SignedHandled \cup {"int16"}

UnsignedKinds == UnsignedHandled \cup {"uint16"}

IntKinds == SignedKinds \cup UnsignedKinds

\* bit size of an integer kind (int and uint are 64 bits wide on a 64-bit build)
Bits(kind) ==
    CASE kind \in {"int8", "uint8"} -> 8
      [] kind \in {"int16", "uint16"} -> 16
      [] kind \in {"int32", "uint32"} -> 32
      [] kind \in {"int", "uint", "int64", "uint64"} -> 64

\* the value a float64 field holds is opaque to the resolver
FloatZero == [float |-> <<"0">>]

\* ------------------------------------------------------------------------
\* The structure types of the package

Leaf(name, kind, json, envKey, def) ==
    [name |-> name, kind |-> kind, canSet |-> TRUE,
     json |-> json, env |-> envKey, def |-> def]

Nested(name) ==
    [name |-> name, kind |-> "struct", canSet |-> TRUE,
     json |-> "", env |-> "", def |-> <<>>]

SharedLeafFields ==
    << Leaf("ListenIP", "string", "ListenIP", "LISTEN_IP", <<"0", ".", "0", ".", "0", ".", "0">>),
       Leaf("ListenPort", "int", "ListenPort", "LISTEN_PORT", <<"0">>),
       Leaf("GoLen", "int", "", "", <<"8", "0", "0", "0">>),
       Leaf("TimerDispatcherLen", "int", "", "", <<"1", "0", "0", "0">>),
       Leaf("ChanRPCLen", "int", "", "", <<"8", "0", "0", "0">>),
       Leaf("MaxConnNum", "int", "", "", <<"5", "0", "0", "0">>),
       Leaf("PendingWriteNum", "int", "", "", <<"1", "0", "0", "0">>),
       Leaf("LenMsgLen", "int", "", "", <<"2">>),
       Leaf("MinMsgLen", "int", "", "", <<"2">>),
       Leaf("MaxMsgLen", "uint32", "", "", <<"6", "5", "5", "3", "5">>),
       Leaf("SlowOpThresholdMs", "int64", "", "", <<"2", "0">>),
       Leaf("SlowResponseMs", "int64", "", "", <<"2", "0", "0", "0">>) >>

SharedBeegoFields ==
    << Leaf("HTTPPort", "int", "HTTPPort", "HTTP_PORT", <<"8", "0", "8", "0">>),
       Leaf("AppName", "string", "AppName", "APP_NAME", <<"m", "y", "_", "g", "a", "m", "e">>),
       Leaf("RunMode", "string", "RunMode", "RUN_MODE", <<"d", "e", "v">>) >>

\* the branch of setFromEnvOrDefault that recurses goes by the field's name
IsNested(d) == d.name \in {"SharedLeaf", "SharedBeego"}

TypeFields(name) ==
    IF name = "SharedLeaf" THEN SharedLeafFields ELSE SharedBeegoFields

RECURSIVE ZeroOf(_)
ZeroOf(d) ==
    CASE d.kind = "string" -> <<>>
      [] d.kind \in IntKinds -> Zero64
      [] d.kind = "bool" -> FALSE
      [] d.kind = "float64" -> FloatZero
      [] d.kind = "struct" -> [k \in 1..Len(TypeFields(d.name)) |-> ZeroOf(TypeFields(d.name)[k])]

ZeroStruct(fields) == [k \in 1..Len(fields) |-> ZeroOf(fields[k])]

\* ------------------------------------------------------------------------
\* os.Getenv: "" for a variable that is not set

Getenv(key) ==
    IF key \in DOMAIN env /\ env[key].set THEN env[key].val ELSE <<>>

\* ------------------------------------------------------------------------
\* isSet and setValue

\* isSet with every comparison the wrong way round
isSetFlipped(kind, v) ==
    CASE kind = "string" -> Len(v) = 0
      [] kind \in SignedHandled -> IsNeg64(v)
      [] kind \in UnsignedHandled -> v = Zero64
      [] kind = "bool" -> ~v
      [] OTHER -> TRUE

isSet(kind, v) ==
    CASE kind = "string" -> Len(v) > 0
      [] kind \in SignedHandled -> Positive64(v)
      [] kind \in UnsignedHandled -> v # Zero64
      [] kind = "bool" -> v
      [] OTHER -> TRUE

\* setValue that appends to a string field instead of replacing it
setValueAppend(kind, v, strVal) ==
    CASE kind = "string" -> v \o strVal
      [] kind \in SignedHandled ->
            LET r == ParseInt(strVal)
            IN  IF r.err # NoErr THEN v ELSE TruncS(r.n, Bits(kind))
      [] kind \in UnsignedHandled ->
            LET r == ParseUint(strVal)
            IN  IF r.err # NoErr THEN v ELSE TruncU(r.n, Bits(kind))
      [] kind = "bool" ->
            LET r == ParseBool(strVal)
            IN  IF r.err # NoErr THEN v ELSE r.b
      [] OTHER -> v

setValue(kind, v, strVal) ==
    CASE kind = "string" -> strVal
      [] kind \in SignedHandled ->
            LET r == ParseInt(strVal)
            IN  IF r.err # NoErr THEN v ELSE TruncS(r.n, Bits(kind))
      [] kind \in UnsignedHandled ->
            LET r == ParseUint(strVal)
            IN  IF r.err # NoErr THEN v ELSE TruncU(r.n, Bits(kind))
      [] kind = "bool" ->
            LET r == ParseBool(strVal)
            IN  IF r.err # NoErr THEN v ELSE r.b
      [] OTHER -> v

\* ------------------------------------------------------------------------
\* setFromEnvOrDefault

\* resolveLeaf that takes the def tag "-" for a default literal
resolveLeafDashDefault(d, v) ==
    LET envVal == Getenv(d.env)
        v1 == IF d.env # "" /\ d.env # "-" /\ envVal # <<>>
              THEN setValue(d.kind, v, envVal)
              ELSE v
    IN  IF isSet(d.kind, v1) THEN v1
        ELSE IF d.def # <<>> THEN setValue(d.kind, v1, d.def)
        ELSE v1

\* the leaf part of one loop iteration
resolveLeaf(d, v) ==
    LET envVal == Getenv(d.env)
        v1 == IF d.env # "" /\ d.env # "-" /\ envVal # <<>>
              THEN setValue(d.kind, v, envVal)
              ELSE v
    IN  IF isSet(d.kind, v1) THEN v1
        ELSE IF d.def # <<>> /\ d.def # <<"-">> THEN setValue(d.kind, v1, d.def)
        ELSE v1

RECURSIVE Blocked(_)
\* the walk panics at field d: CanSet is false, or the walk of the nested
\* structure panics (whether it does depends on the structure type alone)
Blocked(d) ==
    \/ ~d.canSet
    \/ /\ IsNested(d)
       /\ \E k \in 1..Len(TypeFields(d.name)) : Blocked(TypeFields(d.name)[k])

RECURSIVE resolveField(_, _)
\* what one iteration that does not panic leaves in field d: for a nested
\* structure the copy x after its own walk, which v.Set writes back
resolveField(d, v) ==
    IF IsNested(d)
    THEN [k \in 1..Len(v) |-> resolveField(TypeFields(d.name)[k], v[k])]
    ELSE resolveLeaf(d, v)

\* one iteration of the loop over the fields of a structure; a panic inside a
\* nested structure happens before v.Set, so the field keeps its value
Iteration(fields, vals, k) ==
    IF Blocked(fields[k]) THEN [panic |-> TRUE, vals |-> vals]
    ELSE [panic |-> FALSE,
          vals |-> [vals EXCEPT ![k] = resolveField(fields[k], vals[k])]]

\* the index at which the loop panics, Len(fields) + 1 when it does not
PanicAt(fields) ==
    IF \E k \in 1..Len(fields) : Blocked(fields[k])
    THEN CHOOSE k \in 1..Len(fields) :
            Blocked(fields[k]) /\ \A m \in 1..(k - 1) : ~Blocked(fields[m])
    ELSE Len(fields) + 1

\* the whole loop: the fields before the panic are resolved, in declared order
setFromEnvOrDefault(fields, vals) ==
    [panic |-> PanicAt(fields) <= Len(fields),
     vals |-> [k \in 1..Len(fields) |->
                 IF k < PanicAt(fields) THEN resolveField(fields[k], vals[k])
                 ELSE vals[k]]]

\* ------------------------------------------------------------------------
\* ioutil.ReadFile and json.Unmarshal

Tok(t, s, b, m) == [t |-> t, s |-> s, b |-> b, m |-> m]

Num(s) == Tok("num", s, FALSE, <<>>)

Str(s) == Tok("str", s, FALSE, <<>>)

Bool(b) == Tok("bool", <<>>, b, <<>>)

Null == Tok("null", <<>>, FALSE, <<>>)

Arr == Tok("arr", <<>>, FALSE, <<>>)

Obj(m) == Tok("obj", <<>>, FALSE, m)

\* no bytes at all: what ReadFile returns with an error
NoData == [syntax |-> "empty", tok |-> Null]

\* data, err := ioutil.ReadFile(filepath)
ReadFile(f) ==
    IF f.at = "present" THEN [err |-> NoErr, data |-> f.doc]
    ELSE [err |-> f.at, data |-> NoData]

\* the key the decoder looks a field up by
JSONKey(d) == IF d.json = "" THEN d.name ELSE d.json

RECURSIVE decodeObject(_, _, _)
\* one JSON value stored into one field
decodeValue(d, v, tok) ==
    CASE tok.t = "null" -> v
      [] d.kind = "struct" ->
            IF tok.t = "obj" THEN decodeObject(TypeFields(d.name), v, tok.m) ELSE v
      [] d.kind = "string" -> IF tok.t = "str" THEN tok.s ELSE v
      [] d.kind \in SignedKinds ->
            LET r == ParseInt(tok.s)
            IN  IF tok.t # "num" \/ r.err # NoErr \/ TruncS(r.n, Bits(d.kind)) # r.n
                THEN v ELSE r.n
      [] d.kind \in UnsignedKinds ->
            LET r == ParseUint(tok.s)
            IN  IF tok.t # "num" \/ r.err # NoErr \/ TruncU(r.n, Bits(d.kind)) # r.n
                THEN v ELSE r.n
      [] d.kind = "bool" -> IF tok.t = "bool" THEN tok.b ELSE v
      [] d.kind = "float64" -> IF tok.t = "num" THEN [float |-> tok.s] ELSE v

\* a JSON object stored into a structure: unexported and json:"-" fields are
\* skipped, a key that is absent leaves its field alone, a value of the wrong
\* type is reported and leaves its field alone
decodeObject(fields, vals, m) ==
    [k \in 1..Len(fields) |->
        IF fields[k].canSet /\ fields[k].json # "-" /\ JSONKey(fields[k]) \in DOMAIN m
        THEN decodeValue(fields[k], vals[k], m[JSONKey(fields[k])])
        ELSE vals[k]]

\* err = json.Unmarshal(data, &st), st an interface holding the pointer to the
\* destination: a null document sets the interface itself to nil
Unmarshal(d, fields, vals) ==
    CASE d.syntax # "valid" -> [err |-> "SyntaxError", nil |-> FALSE, vals |-> vals]
      [] d.tok.t = "null" -> [err |-> NoErr, nil |-> TRUE, vals |-> vals]
      [] d.tok.t = "obj" ->
            [err |-> NoErr, nil |-> FALSE, vals |-> decodeObject(fields, vals, d.tok.m)]
      [] OTHER -> [err |-> "UnmarshalTypeError", nil |-> FALSE, vals |-> vals]

\* ------------------------------------------------------------------------
\* Inputs

MaxRuns == 2

IntLits ==
    { <<"0">>, <<"-", "1">>, <<"7">>, <<"3", "0", "0">>,
      <<"4", "2", "9", "4", "9", "6", "7", "2", "9", "6">>,
      <<"9", "2", "2", "3", "3", "7", "2", "0", "3", "6", "8", "5", "4", "7", "7", "5", "8", "0", "8">>,
      <<"a", "b", "c">> }

StrLits == { <<"x">>, <<"y">> }

BoolLits == { <<"t", "r", "u", "e">>, <<"f", "a", "l", "s", "e">>, <<"1">>, <<"a", "b", "c">> }

FloatLits == { <<"7">> }

ProbeKinds == IntKinds \cup {"string", "bool", "float64"}

Lits(kind) ==
    CASE kind \in IntKinds -> IntLits
      [] kind = "string" -> StrLits
      [] kind = "bool" -> BoolLits
      [] kind = "float64" -> FloatLits

\* JSON values offered to a field of a kind, one of them of the wrong type
Toks(kind) ==
    CASE kind \in IntKinds ->
            {Num(<<"0">>), Num(<<"-", "1">>), Num(<<"7">>), Num(<<"3", "0", "0">>), Str(<<"x">>)}
      [] kind = "string" -> {Str(<<>>), Str(<<"j">>), Num(<<"7">>)}
      [] kind = "bool" -> {Bool(TRUE), Bool(FALSE), Str(<<"x">>)}
      [] kind = "float64" -> {Num(<<"7">>)}

EnvKeys ==
    {"PROBE", "DEBUG", "NAME", "LISTEN_IP", "LISTEN_PORT", "HTTP_PORT", "APP_NAME", "RUN_MODE"}

Unset == [set |-> FALSE, val |-> <<>>]

SetTo(s) == [set |-> TRUE, val |-> s]

EmptyEnv == [k \in EnvKeys |-> Unset]

Present(tok) == [at |-> "present", doc |-> [syntax |-> "valid", tok |-> tok]]

Absent(why) == [at |-> why, doc |-> NoData]

Malformed == [at |-> "present", doc |-> [syntax |-> "invalid", tok |-> Null]]

EmptyObject == Present(Obj(<<>>))

\* the files that carry no object
PlainFiles ==
    {Absent("missing"), Absent("unreadable"), Malformed, Present(Null), Present(Arr), EmptyObject}

\* a second top-level leaf; unexported (not assignable) when canSet is FALSE
Debug(canSet) ==
    [name |-> IF canSet THEN "Debug" ELSE "debug", kind |-> "bool", canSet |-> canSet,
     json |-> "", env |-> "DEBUG", def |-> <<"t", "r", "u", "e">>]

Name(canSet) ==
    [name |-> IF canSet THEN "Name" ELSE "name", kind |-> "string", canSet |-> canSet,
     json |-> "", env |-> "NAME", def |-> <<"s", "r", "v">>]

Conf(p, q) == <<p, Nested("SharedLeaf"), q, Nested("SharedBeego")>>

\* an object holding the keys whose option is a value
Pick(opts) == [k \in {key \in DOMAIN opts : opts[key] # Null} |-> opts[k]]

Begin(sch, e, f) ==
    /\ schema = sch
    /\ env = e
    /\ file = f
    /\ dest = ZeroStruct(sch)
    /\ start = ZeroStruct(sch)
    /\ decoded = ZeroStruct(sch)
    /\ first = [pc |-> "none", dest |-> ZeroStruct(sch)]
    /\ stNil = FALSE
    /\ data = NoData
    /\ pc = "start"
    /\ i = 0
    /\ run = 1

\* one top-level leaf of any kind, with any tags, environment and file
ProbeInit ==
    \E kind \in ProbeKinds :
    \E envTag \in {"", "-", "PROBE"} :
    \E def \in {<<>>, <<"-">>} \cup Lits(kind) :
    \E ev \in {Unset, SetTo(<<>>)} \cup {SetTo(s) : s \in Lits(kind)} :
    \E f \in PlainFiles \cup {Present(Obj([Probe |-> t])) : t \in Toks(kind)} :
        /\ envTag # "PROBE" => ev = Unset
        /\ Begin(Conf(Leaf("Probe", kind, "Probe", envTag, def), Debug(TRUE)),
                 [EmptyEnv EXCEPT !["PROBE"] = ev], f)

\* the fields of the nested structures, and fields that cannot be assigned
NestedInit ==
    \E pSet \in BOOLEAN, qSet \in BOOLEAN :
    \E port \in {Unset, SetTo(<<"0">>), SetTo(<<"9", "0", "9", "0">>), SetTo(<<"a", "b", "c">>)} :
    \E ip \in {Unset, SetTo(<<"x">>)} :
    \E app \in {Unset, SetTo(<<"x">>)} :
    \E jPort \in {Null, Num(<<"8", "0", "8", "0">>), Num(<<"0">>)} :
    \E jGo \in {Null, Num(<<"7">>), Num(<<"-", "1">>)} :
    \E jMax \in {Null, Num(<<"7", "0", "0", "0", "0">>)} :
    \E jApp \in {Null, Str(<<"j">>)} :
    \E f \in {Absent("missing"),
              Present(Obj([SharedLeaf |-> Obj(Pick([ListenPort |-> jPort, GoLen |-> jGo,
                                                    MaxMsgLen |-> jMax])),
                           SharedBeego |-> Obj(Pick([AppName |-> jApp]))]))} :
        /\ f.at = "missing" => jPort = Null /\ jGo = Null /\ jMax = Null /\ jApp = Null
        /\ Begin(Conf(Name(pSet), Debug(qSet)),
                 [EmptyEnv EXCEPT !["LISTEN_PORT"] = port, !["LISTEN_IP"] = ip,
                                  !["APP_NAME"] = app], f)

Init == ProbeInit \/ NestedInit

\* ------------------------------------------------------------------------
\* Parse

\* data, err := ioutil.ReadFile(filepath); the error is printed
Read ==
    /\ pc = "start"
    /\ data' = ReadFile(file).data
    /\ pc' = "unmarshal"
    /\ UNCHANGED <<schema, env, file, dest, stNil, i, run, start, decoded, first>>

\* Decode that makes Parse return when json.Unmarshal reports an error
DecodeReturnsOnError ==
    /\ pc = "unmarshal"
    /\ LET r == Unmarshal(data, schema, dest)
       IN  /\ dest' = r.vals
           /\ decoded' = r.vals
           /\ stNil' = r.nil
           /\ pc' = IF r.err # NoErr THEN "done" ELSE "enter"
    /\ UNCHANGED <<schema, env, file, data, i, run, start, first>>

\* err = json.Unmarshal(data, &st); the error is printed
Decode ==
    /\ pc = "unmarshal"
    /\ LET r == Unmarshal(data, schema, dest)
       IN  /\ dest' = r.vals
           /\ decoded' = r.vals
           /\ stNil' = r.nil
    /\ pc' = "enter"
    /\ UNCHANGED <<schema, env, file, data, i, run, start, first>>

\* setFromEnvOrDefault(st): reflect.ValueOf(st).Elem() panics on a nil interface
Enter ==
    /\ pc = "enter"
    /\ IF stNil THEN pc' = "panic" /\ i' = i
       ELSE pc' = "loop" /\ i' = 1
    /\ UNCHANGED <<schema, env, file, dest, stNil, data, run, start, decoded, first>>

\* one iteration of the loop over the destination's own fields
Field ==
    /\ pc = "loop"
    /\ i <= Len(schema)
    /\ LET r == Iteration(schema, dest, i)
       IN  IF r.panic
           THEN pc' = "panic" /\ i' = i /\ dest' = dest
           ELSE pc' = "loop" /\ i' = i + 1 /\ dest' = r.vals
    /\ UNCHANGED <<schema, env, file, stNil, data, run, start, decoded, first>>

\* the loop is over: Parse returns
Return ==
    /\ pc = "loop"
    /\ i > Len(schema)
    /\ pc' = "done"
    /\ UNCHANGED <<schema, env, file, dest, stNil, data, i, run, start, decoded, first>>

\* the caller calls Parse once more, after it returned or after the caller
\* recovered its panic, with the same file and environment
Call(d) ==
    /\ pc \in {"done", "panic"}
    /\ run < MaxRuns
    /\ run' = run + 1
    /\ first' = IF run = 1 THEN [pc |-> pc, dest |-> dest] ELSE first
    /\ dest' = d
    /\ start' = d
    /\ decoded' = d
    /\ stNil' = FALSE
    /\ data' = NoData
    /\ pc' = "start"
    /\ i' = 0
    /\ UNCHANGED <<schema, env, file>>

\* Parse is called again on a new zero-valued destination
CallFresh == Call(ZeroStruct(schema))

\* Parse is called again on the destination it has already resolved
CallAgain == Call(dest)

Next == Read \/ Decode \/ Enter \/ Field \/ Return \/ CallFresh \/ CallAgain

Spec == Init /\ [][Next]_vars

\* ------------------------------------------------------------------------
\* Vocabulary of the properties

\* every leaf of the destination: <<k>> at the top, <<k, j>> inside a nested structure
LeafPaths ==
    {<<k>> : k \in {m \in 1..Len(schema) : ~IsNested(schema[m])}} \cup
    UNION {{<<k, j>> : j \in 1..Len(TypeFields(schema[k].name))} :
              k \in {m \in 1..Len(schema) : IsNested(schema[m])}}

DescAt(p) ==
    IF Len(p) = 1 THEN schema[p[1]] ELSE TypeFields(schema[p[1]].name)[p[2]]

ValAt(vals, p) == IF Len(p) = 1 THEN vals[p[1]] ELSE vals[p[1]][p[2]]

Scalar(d) == d.kind \in IntKinds \cup {"string", "bool"}

\* the env tag names a variable that is present and non-empty
EnvOverride(d) ==
    /\ d.env \notin {"", "-"}
    /\ d.env \in DOMAIN env
    /\ env[d.env].set
    /\ env[d.env].val # <<>>

EnvLit(d) == env[d.env].val

HasDefault(d) == d.def # <<>> /\ d.def # <<"-">>

\* non-empty string, integer > 0, or true
Meaningful(d, v) ==
    CASE d.kind = "string" -> v # <<>>
      [] d.kind \in SignedKinds -> Positive64(v)
      [] d.kind \in UnsignedKinds -> v # Zero64
      [] d.kind = "bool" -> v

\* the literal is one of the field's declared kind
Parses(d, s) ==
    CASE d.kind = "string" -> TRUE
      [] d.kind \in SignedKinds -> ParseInt(s).err = NoErr
      [] d.kind \in UnsignedKinds -> ParseUint(s).err = NoErr
      [] d.kind = "bool" -> ParseBool(s).err = NoErr

\* the value the literal denotes
Parsed(d, s) ==
    CASE d.kind = "string" -> s
      [] d.kind \in SignedKinds -> ParseInt(s).n
      [] d.kind \in UnsignedKinds -> ParseUint(s).n
      [] d.kind = "bool" -> ParseBool(s).b

\* the number lies in the range of the field's width
InRange(d, n) ==
    IF d.kind \in SignedKinds THEN TruncS(n, Bits(d.kind)) = n
    ELSE TruncU(n, Bits(d.kind)) = n

Returned == pc = "done"

Ended == pc \in {"done", "panic"}

\* ------------------------------------------------------------------------
\* Properties

\* C1: a leaf whose environment variable is present, non-empty and parses holds,
\* after Parse, the value parsed from the variable, whatever JSON and default say.
EnvironmentWins ==
    Returned =>
        \A p \in LeafPaths :
            (Scalar(DescAt(p)) /\ EnvOverride(DescAt(p))
                /\ Parses(DescAt(p), EnvLit(DescAt(p))))
            => ValAt(dest, p) = Parsed(DescAt(p), EnvLit(DescAt(p)))

\* C2: a leaf with no environment override that is meaningful after JSON decoding
\* still holds the decoded value after Parse, whatever its default is.
JSONBeatsDefault ==
    Returned =>
        \A p \in LeafPaths :
            (Scalar(DescAt(p)) /\ ~EnvOverride(DescAt(p))
                /\ Meaningful(DescAt(p), ValAt(decoded, p)))
            => ValAt(dest, p) = ValAt(decoded, p)

\* C2 witness: JSON gave a meaningful value to a leaf whose default denotes another
\* value, and Parse returned with the JSON value in the field.
JSONBeatsDefaultSeen ==
    /\ Returned
    /\ run = 1
    /\ \E p \in LeafPaths :
        /\ Scalar(DescAt(p)) /\ ~EnvOverride(DescAt(p))
        /\ Meaningful(DescAt(p), ValAt(decoded, p))
        /\ ValAt(decoded, p) # ValAt(start, p)
        /\ HasDefault(DescAt(p)) /\ Parses(DescAt(p), DescAt(p).def)
        /\ Parsed(DescAt(p), DescAt(p).def) # ValAt(decoded, p)
        /\ ValAt(dest, p) = ValAt(decoded, p)

\* C3: a string, integer or boolean leaf with no environment override, not
\* meaningful after JSON decoding, with a default literal, holds the parsed
\* default after Parse.
DefaultFills ==
    Returned =>
        \A p \in LeafPaths :
            (Scalar(DescAt(p)) /\ ~EnvOverride(DescAt(p))
                /\ ~Meaningful(DescAt(p), ValAt(decoded, p))
                /\ HasDefault(DescAt(p)) /\ Parses(DescAt(p), DescAt(p).def))
            => ValAt(dest, p) = Parsed(DescAt(p), DescAt(p).def)

\* C4 as stated: with no environment override, no meaningful JSON value and no
\* default, the leaf holds its kind's zero value after Parse.
ZeroWhenNothingApplies ==
    Returned =>
        \A p \in LeafPaths :
            (Scalar(DescAt(p)) /\ ~EnvOverride(DescAt(p))
                /\ ~Meaningful(DescAt(p), ValAt(decoded, p))
                /\ ~HasDefault(DescAt(p)))
            => ValAt(dest, p) = ZeroOf(DescAt(p))

\* C4 as amended: with no environment override, no meaningful JSON value and no
\* default, the leaf holds after Parse the value it held after JSON decoding
\* (a negative integer from JSON stays).
UntouchedWhenNothingApplies ==
    Returned =>
        \A p \in LeafPaths :
            (Scalar(DescAt(p)) /\ ~EnvOverride(DescAt(p))
                /\ ~Meaningful(DescAt(p), ValAt(decoded, p))
                /\ ~HasDefault(DescAt(p)))
            => ValAt(dest, p) = ValAt(decoded, p)

\* C4 witness: a signed leaf with no override and no default, to which JSON gave
\* a negative number, holds that number when Parse has returned.
UntouchedNegativeSeen ==
    /\ Returned
    /\ run = 1
    /\ \E p \in LeafPaths :
        /\ DescAt(p).kind \in SignedKinds
        /\ ~EnvOverride(DescAt(p)) /\ ~HasDefault(DescAt(p))
        /\ IsNeg64(ValAt(decoded, p))
        /\ ValAt(dest, p) = ValAt(decoded, p)

\* C5: a literal that does not parse as the field's kind never aborts Parse and
\* leaves the field at the value it had; after a failed environment coercion that
\* is the field's final value.
CoercionFailureKeeps ==
    /\ pc = "panic" => (stNil \/ (i \in 1..Len(schema) /\ Blocked(schema[i])))
    /\ Returned =>
        \A p \in LeafPaths :
            Scalar(DescAt(p)) =>
                /\ (EnvOverride(DescAt(p)) /\ ~Parses(DescAt(p), EnvLit(DescAt(p))))
                    => ValAt(dest, p) = ValAt(decoded, p)
                /\ (~EnvOverride(DescAt(p)) /\ ~Meaningful(DescAt(p), ValAt(decoded, p))
                        /\ HasDefault(DescAt(p)) /\ ~Parses(DescAt(p), DescAt(p).def))
                    => ValAt(dest, p) = ValAt(decoded, p)

\* C6: for an integer leaf of any width, 16 bits included, a value > 0 is kept, and
\* a literal within the field's range from the environment (> 0) or from the
\* default tag (field not meaningful, no override) is the field's value after Parse.
EveryIntegerWidth ==
    Returned =>
        \A p \in LeafPaths :
            DescAt(p).kind \in IntKinds =>
                /\ (~EnvOverride(DescAt(p)) /\ Meaningful(DescAt(p), ValAt(decoded, p)))
                    => ValAt(dest, p) = ValAt(decoded, p)
                /\ (~EnvOverride(DescAt(p)) /\ ~Meaningful(DescAt(p), ValAt(decoded, p))
                        /\ HasDefault(DescAt(p)) /\ Parses(DescAt(p), DescAt(p).def)
                        /\ InRange(DescAt(p), Parsed(DescAt(p), DescAt(p).def)))
                    => ValAt(dest, p) = Parsed(DescAt(p), DescAt(p).def)
                /\ (EnvOverride(DescAt(p)) /\ Parses(DescAt(p), EnvLit(DescAt(p)))
                        /\ InRange(DescAt(p), Parsed(DescAt(p), EnvLit(DescAt(p))))
                        /\ Meaningful(DescAt(p), Parsed(DescAt(p), EnvLit(DescAt(p)))))
                    => ValAt(dest, p) = Parsed(DescAt(p), EnvLit(DescAt(p)))

\* C7: with the file missing, unreadable or malformed, Parse ends as it does for
\* an empty JSON object on the same destination, environment and defaults, and
\* returns when every field can be assigned.
MissingFileDegrades ==
    (Ended /\ file \in {Absent("missing"), Absent("unreadable"), Malformed}) =>
        /\ dest = setFromEnvOrDefault(schema,
                      Unmarshal(EmptyObject.doc, schema, start).vals).vals
        /\ (pc = "panic") = setFromEnvOrDefault(schema, start).panic
        /\ (\A k \in 1..Len(schema) : ~Blocked(schema[k])) => pc = "done"

\* C7 witness: Parse returned for a missing file with a default in a field.
MissingFileDegradesSeen ==
    /\ Returned
    /\ run = 1
    /\ file = Absent("missing")
    /\ \E p \in LeafPaths :
        /\ HasDefault(DescAt(p))
        /\ ValAt(dest, p) # ValAt(start, p)

\* C8: Parse panics exactly when the traversal reaches a field that cannot be
\* assigned; no file, environment value or default makes it panic otherwise.
AbortOnlyOnSchemaViolation ==
    /\ pc = "panic" => (i \in 1..Len(schema) /\ Blocked(schema[i]))
    /\ pc = "done" => \A k \in 1..Len(schema) : ~Blocked(schema[k])

\* C9: with file and environment fixed, a second Parse, on a new zero-valued
\* destination or on the destination the first one resolved, ends as the first.
Idempotent ==
    (run >= 2 /\ Ended) => first = [pc |-> pc, dest |-> dest]

\* C9 witness: the second Parse ran on the resolved destination, JSON decoding
\* changed it again, and Parse returned.
IdempotentSeen ==
    /\ run = 2
    /\ Returned
    /\ start = first.dest
    /\ start # ZeroStruct(schema)
    /\ decoded # start

\* C10: an integer leaf of 8, 32 or 64 bits holds after Parse the value JSON
\* decoding left or the numeric value of its environment or default literal,
\* never another value; a positive environment literal is what the field holds.
NoSilentWrap ==
    Returned =>
        \A p \in LeafPaths :
            DescAt(p).kind \in SignedHandled \cup UnsignedHandled =>
                /\ \/ ValAt(dest, p) = ValAt(decoded, p)
                   \/ /\ EnvOverride(DescAt(p)) /\ Parses(DescAt(p), EnvLit(DescAt(p)))
                      /\ ValAt(dest, p) = Parsed(DescAt(p), EnvLit(DescAt(p)))
                   \/ /\ HasDefault(DescAt(p)) /\ Parses(DescAt(p), DescAt(p).def)
                      /\ ValAt(dest, p) = Parsed(DescAt(p), DescAt(p).def)
                /\ (EnvOverride(DescAt(p)) /\ Parses(DescAt(p), EnvLit(DescAt(p)))
                        /\ Meaningful(DescAt(p), Parsed(DescAt(p), EnvLit(DescAt(p)))))
                    => ValAt(dest, p) = Parsed(DescAt(p), EnvLit(DescAt(p)))

====
